---- MODULE Spec2Model ----
(***************************************************************************)
(* A model of the segment store of the vector database                     *)
(* (src/src/cpp/db/iceberg_store.hpp): the mutable active segment, the     *)
(* sealed segments and their files, tombstones, snapshots and compaction.  *)
(*                                                                         *)
(* Every public operation of IcebergStore takes the store mutex for its    *)
(* whole body, so each operation is one atomic action.                     *)
(***************************************************************************)
EXTENDS Integers, Sequences, FiniteSets

\* ------------------------------------------------------------------------
\* Bounds of the model
\* ------------------------------------------------------------------------

\* total number of rows accepted by insert and bulk_insert in one behaviour;
\* insert and bulk_insert are called while fewer rows have been accepted
MaxInserts == 2

\* the store is opened with a segment capacity in 1..MaxCapacity
MaxCapacity == 2

\* compact is called only while fewer than MaxSnapshots snapshots exist
MaxSnapshots == 4

\* the index alone is given at most MaxNodes vectors
MaxNodes == 7

\* the beam widths search_layer is looked at with are 1 .. MaxEf
MaxEf == 2

\* ------------------------------------------------------------------------
\* Inputs
\* ------------------------------------------------------------------------

\* the embedding dimension the store is opened with
dim_ == 2

\* the ids callers use: two ids are enough to store an id twice, to delete
\* a stored id and to delete an id that a segment does not hold
Ids == {1, 2}

\* the threads that call the engine at the same time
Threads == {1, 2}

\* the embedding a caller stores under an id: a unit vector of length dim_,
\* so that rows with different ids carry different payloads
EmbeddingOf(id) == [i \in 1 .. dim_ |-> IF i = ((id - 1) % dim_) + 1 THEN 1 ELSE 0]

\* an embedding of the wrong length
ShortEmbedding == [i \in 1 .. (dim_ - 1) |-> 1]

\* insert is called with an explicit metadata string; bulk_insert stores ""
Metadatas == {"m"}

\* Compaction thresholds are floats; the model draws them from rationals
\* <<p, q>> = p/q (q > 0) that a float represents exactly.
Thresholds == {<<-1, 2>>, <<1, 2>>, <<1, 1>>, <<3, 2>>}

\* ------------------------------------------------------------------------
\* State
\* ------------------------------------------------------------------------

VARIABLES
    segment_capacity_,  \* size_t segment_capacity_
    next_segment_id_,   \* int next_segment_id_
    active_segment_,    \* Segment: [segment_id, records, deleted]
    sealed_segments_,   \* vector<SealedSegment>
    snapshots_,         \* vector<Snapshot>
    files,              \* the files under data_dir_: path -> columns
    inserted,           \* history: every row accepted, in call order
    call,               \* history: the last call, its arguments and its result
    hnsw_,              \* VectorDB::hnsw_, the HNSWIndex of the engine
    found,              \* history: the query, k and result of the last call,
                        \* when it was a VectorDB::search
    gone,               \* history: the ids given to VectorDB::delete_vector
                        \* with no record of that id inserted since
    mutex_,             \* IcebergStore::mutex_: the thread that holds it, or 0
    pc,                 \* where each thread is in its call
    local               \* the call of each thread: its rows, the number of
                        \* them stored (i) and indexed (j), and what it read

\* the state of the engine around the store
engine_vars == <<hnsw_, found, gone>>

\* the state of the threads
thread_vars == <<mutex_, pc, local>>

vars == <<segment_capacity_, next_segment_id_, active_segment_,
          sealed_segments_, snapshots_, files, inserted, call,
          hnsw_, found, gone, mutex_, pc, local>>

\* ------------------------------------------------------------------------
\* Helpers
\* ------------------------------------------------------------------------

Range(s) == {s[i] : i \in DOMAIN s}

RECURSIVE Concat(_)
\* the concatenation of a sequence of sequences
Concat(ss) == IF ss = <<>> THEN <<>> ELSE Head(ss) \o Concat(Tail(ss))

RECURSIVE Sum(_)
Sum(s) == IF s = <<>> THEN 0 ELSE Head(s) + Sum(Tail(s))

\* size_t arithmetic is modulo 2^64.  All counts of the model are far below
\* 2^31, so a size_t result is kept as its signed representative: v >= 0
\* stands for the value v, and v < 0 stands for the wrapped value 2^64 + v.
Wrapped(v) == v < 0

\* as unsigned values, a is exactly n >= 0 larger than b
ExactlyLarger(a, b, n) == a = b + n /\ Wrapped(a) = Wrapped(b)

\* as unsigned values, after is at most k >= 0 smaller than before
DecreasesByAtMost(before, after, k) ==
    IF Wrapped(before) = Wrapped(after) THEN before - after <= k ELSE Wrapped(after)

\* the number of entries of the sequence s that equal x
Count(s, x) == Cardinality({i \in DOMAIN s : s[i] = x})

RECURSIVE IsSubseq(_, _)
\* s can be obtained from t by dropping entries of t
IsSubseq(s, t) ==
    IF s = <<>> THEN TRUE
    ELSE IF t = <<>> THEN FALSE
    ELSE IF Head(s) = Head(t) THEN IsSubseq(Tail(s), Tail(t))
    ELSE IsSubseq(s, Tail(t))

\* ------------------------------------------------------------------------
\* VectorRecord, Segment, SealedSegment, Snapshot
\* ------------------------------------------------------------------------

VectorRecord(id, embedding, metadata) ==
    [id |-> id, embedding |-> embedding, metadata |-> metadata]

\* Segment::live_count
SegmentLiveCount(seg) == Len(seg.records) - Cardinality(seg.deleted)

\* SealedSegment::live_count
SealedLiveCount(seg) == seg.num_records - Cardinality(seg.deleted)

\* SealedSegment::tombstone_ratio() >= threshold, with threshold = p/q:
\* the ratio is 0 when num_records = 0, else |deleted| / num_records
RatioAtLeast(seg, threshold) ==
    IF seg.num_records = 0
    THEN 0 >= threshold[1]
    ELSE Cardinality(seg.deleted) * threshold[2] >= threshold[1] * seg.num_records

\* the path of the file of a segment: data_dir_/segment_<id>.parquet
SegmentPath(segment_id) == <<"segment", segment_id>>

\* ------------------------------------------------------------------------
\* The columnar file
\* ------------------------------------------------------------------------

\* a write that leaves out the last row
write_parquet_but_last(records) ==
    [id |-> [i \in 1 .. (Len(records) - 1) |-> records[i].id],
     embedding |-> Concat([i \in 1 .. (Len(records) - 1) |-> records[i].embedding]),
     metadata |-> [i \in 1 .. (Len(records) - 1) |-> records[i].metadata]]

\* write_parquet: the rows become three columns, the embeddings flattened
write_parquet(records) ==
    [id |-> [i \in 1 .. Len(records) |-> records[i].id],
     embedding |-> Concat([i \in 1 .. Len(records) |-> records[i].embedding]),
     metadata |-> [i \in 1 .. Len(records) |-> records[i].metadata]]

\* row i of a file: the slice [i*dim_, (i+1)*dim_) of the flat column
FileRow(file, i) ==
    VectorRecord(file.id[i],
                 SubSeq(file.embedding, (i - 1) * dim_ + 1, i * dim_),
                 file.metadata[i])

RECURSIVE ReadFrom(_, _, _)
\* the loop of read_parquet from row i on: the rows whose id is not in
\* deleted
ReadFrom(file, deleted, i) ==
    IF i > Len(file.id) THEN <<>>
    ELSE IF file.id[i] \notin deleted
         THEN <<FileRow(file, i)>> \o ReadFrom(file, deleted, i + 1)
         ELSE ReadFrom(file, deleted, i + 1)

\* read_parquet
read_parquet(file, deleted) == ReadFrom(file, deleted, 1)

\* ------------------------------------------------------------------------
\* The store as a value, for the operations' bodies
\* ------------------------------------------------------------------------

Store ==
    [active |-> active_segment_, sealed |-> sealed_segments_,
     next_id |-> next_segment_id_, snapshots |-> snapshots_, files |-> files]

\* a commit that overwrites the last snapshot instead of appending one
commit_snapshot_in_place(st) ==
    [st EXCEPT !.snapshots[Len(st.snapshots)] =
        [snapshot_id |-> Len(st.snapshots),
         segment_ids |-> [i \in 1 .. Len(st.sealed) |-> st.sealed[i].segment_id]]]

\* commit_snapshot; timestamp_ms is the wall clock, which no operation
\* reads back, and is left out of the snapshot
commit_snapshot(st) ==
    [st EXCEPT !.snapshots =
        Append(@, [snapshot_id |-> Len(st.snapshots),
                   segment_ids |-> [i \in 1 .. Len(st.sealed) |->
                                       st.sealed[i].segment_id]])]

\* the descriptor flush_active_segment_locked builds for the active segment
SealedOfNoTombstones(active) ==
    [segment_id |-> active.segment_id,
     filepath |-> SegmentPath(active.segment_id),
     num_records |-> Len(active.records),
     deleted |-> {}]

SealedOf(active) ==
    [segment_id |-> active.segment_id,
     filepath |-> SegmentPath(active.segment_id),
     num_records |-> Len(active.records),
     deleted |-> active.deleted]

\* flush_active_segment_locked
flush_active_segment_locked(st) ==
    IF st.active.records = <<>>
    THEN st
    ELSE commit_snapshot(
            [st EXCEPT
                !.files = [p \in DOMAIN st.files \cup {SegmentPath(st.active.segment_id)} |->
                              IF p = SegmentPath(st.active.segment_id)
                              THEN write_parquet(st.active.records)
                              ELSE st.files[p]],
                !.sealed = Append(@, SealedOf(st.active)),
                !.active = [segment_id |-> st.next_id, records |-> <<>>, deleted |-> {}],
                !.next_id = @ + 1])

\* the seal test of insert and bulk_insert, on the active segment's size
SealDueLate(n) == n > segment_capacity_

SealDue(n) == n >= segment_capacity_

\* one push_back into the active segment and the seal that may follow it
AppendRow(st, rec) ==
    LET pushed == [st EXCEPT !.active.records = Append(@, rec)]
    IN  IF SealDue(Len(pushed.active.records))
        THEN flush_active_segment_locked(pushed)
        ELSE pushed

RECURSIVE BulkLoop(_, _, _, _, _, _)
\* the loop of bulk_insert from row i (0-based) on
BulkLoop(st, ids, vectors, i, count, dim) ==
    IF i >= count
    THEN st
    ELSE BulkLoop(AppendRow(st, VectorRecord(ids[i + 1],
                                             SubSeq(vectors, i * dim + 1, (i + 1) * dim),
                                             "")),
                  ids, vectors, i + 1, count, dim)

\* a delete_vector that tombstones in the active segment only
DeleteVectorActiveOnly(st, id) ==
    [st EXCEPT !.active.deleted = @ \cup {id}]

\* a delete_vector that tombstones in the active segment and in every
\* sealed one
DeleteVectorEverywhere(st, id) ==
    [st EXCEPT !.active.deleted = @ \cup {id},
               !.sealed = [i \in DOMAIN st.sealed |->
                              [st.sealed[i] EXCEPT !.deleted = @ \cup {id}]]]

\* delete_vector
DeleteVector(st, id) ==
    IF \E i \in DOMAIN st.active.records : st.active.records[i].id = id
    THEN [st EXCEPT !.active.deleted = @ \cup {id}]
    ELSE [st EXCEPT !.sealed = [i \in DOMAIN st.sealed |->
                                   [st.sealed[i] EXCEPT !.deleted = @ \cup {id}]]]

RECURSIVE ScanSealed(_, _)
\* the first loop of scan_all, from sealed segment i on
ScanSealed(st, i) ==
    IF i > Len(st.sealed) THEN <<>>
    ELSE read_parquet(st.files[st.sealed[i].filepath], st.sealed[i].deleted)
         \o ScanSealed(st, i + 1)

\* scan_all
ScanAll(st) ==
    ScanSealed(st, 1)
    \o SelectSeq(st.active.records, LAMBDA r : r.id \notin st.active.deleted)

\* total_records
TotalRecords(st) ==
    Len(st.active.records)
    + Sum([i \in 1 .. Len(st.sealed) |-> st.sealed[i].num_records])

\* total_live_records
TotalLiveRecords(st) ==
    SegmentLiveCount(st.active)
    + Sum([i \in 1 .. Len(st.sealed) |-> SealedLiveCount(st.sealed[i])])

\* the rows compact counts as reclaimed from one rewritten segment
ReclaimedByTombstones(seg, live) == Cardinality(seg.deleted)

Reclaimed(seg, live) == seg.num_records - Len(live)

\* the sealed segments compact rewrites: tombstone_ratio() >= threshold
Dirty(st, threshold) ==
    {i \in DOMAIN st.sealed : RatioAtLeast(st.sealed[i], threshold)}

\* compact: the new store and the value returned
Compact(st, threshold) ==
    LET dirty == Dirty(st, threshold)
        live(i) == read_parquet(st.files[st.sealed[i].filepath], st.sealed[i].deleted)
        clean == SelectSeq(st.sealed, LAMBDA seg : ~RatioAtLeast(seg, threshold))
        to_merge == Concat([i \in 1 .. Len(st.sealed) |->
                               IF i \in dirty THEN live(i) ELSE <<>>])
        reclaimed == Sum([i \in 1 .. Len(st.sealed) |->
                             IF i \in dirty THEN Reclaimed(st.sealed[i], live(i)) ELSE 0])
        kept == {p \in DOMAIN st.files :
                    \A i \in dirty : st.sealed[i].filepath # p}
        merged == [segment_id |-> st.next_id,
                   filepath |-> SegmentPath(st.next_id),
                   num_records |-> Len(to_merge),
                   deleted |-> {}]
        after == IF to_merge # <<>>
                 THEN [st EXCEPT
                          !.files = [p \in kept \cup {SegmentPath(st.next_id)} |->
                                        IF p = SegmentPath(st.next_id)
                                        THEN write_parquet(to_merge)
                                        ELSE st.files[p]],
                          !.sealed = Append(clean, merged),
                          !.next_id = @ + 1]
                 ELSE [st EXCEPT
                          !.files = [p \in kept |-> st.files[p]],
                          !.sealed = clean]
    IN  [store |-> commit_snapshot(after), ret |-> reclaimed]

\* ------------------------------------------------------------------------
\* HNSWIndex (src/src/cpp/hnsw.hpp)
\*
\* Node ids are the 0-based positions of vectors_; node n is vectors[n + 1],
\* layer l is graph[l + 1] and the adjacency list of node n at layer l is
\* graph[l + 1][n + 1].  A SearchResult is [distance, id].
\* ------------------------------------------------------------------------

\* NONE is the largest size_t, whose signed representative is -1
NONE == 0 - 1

\* uniform_(rng_), in millionths: the first draws of a mt19937 seeded with
\* 42 through uniform_real_distribution<double>(0, 1).  Every index starts
\* from this seed and every insert draws once, so the insert of node n takes
\* draw n + 1.
Draws == <<796543, 183435, 779691, 596850, 445833, 99975, 459249, 333709>>

RECURSIVE LevelFrom(_, _, _, _)
\* the largest level l with M^l * u <= 1, power being M^l: that is
\* int(-log(u) * mL) for mL = 1 / log(M)
LevelFrom(M, u, l, power) ==
    IF power * M * u <= 1000000 THEN LevelFrom(M, u, l + 1, power * M) ELSE l

\* random_level of an index that has drawn n levels before
random_level(h, n) == LevelFrom(h.M, Draws[n + 1], 0, 1)

\* HNSWIndex::HNSWIndex
HNSWIndex(M, ef_construction, ef_search) ==
    [M |-> M, M_max0 |-> 2 * M,
     ef_construction |-> ef_construction, ef_search |-> ef_search,
     entry_point |-> NONE, max_layer |-> 0,
     vectors |-> <<>>, graph |-> <<>>]

\* distance_sq
distance_sq(a, b) == Sum([i \in 1 .. dim_ |-> (a[i] - b[i]) * (a[i] - b[i])])

\* std::sqrt of a squared distance: the coordinates of the model are small
\* integers, so a distance is the root of an integer and is kept as that
sqrt(x) == [root_of |-> x]

\* operator< of SearchResult orders by distance; std::sort and the heaps
\* leave the order of equal distances open, and the model puts the smaller
\* id first where that order stays inside the index
Before(r1, r2) ==
    \/ r1.distance < r2.distance
    \/ r1.distance = r2.distance /\ r1.id < r2.id

\* the first and the last of a non-empty set of results
Nearest(rs) == CHOOSE r \in rs : \A o \in rs : o = r \/ Before(r, o)
Farthest(rs) == CHOOSE r \in rs : \A o \in rs : o = r \/ Before(o, r)

RECURSIVE SortedDescending(_)
\* a sort that puts the farthest first
SortedDescending(rs) ==
    IF rs = {} THEN <<>>
    ELSE <<Farthest(rs)>> \o SortedDescending(rs \ {Farthest(rs)})

RECURSIVE Sorted(_)
\* std::sort of a set of results
Sorted(rs) ==
    IF rs = {} THEN <<>> ELSE <<Nearest(rs)>> \o Sorted(rs \ {Nearest(rs)})

RECURSIVE ExpandFrom(_, _, _, _, _, _)
\* the loop of search_layer over the neighbours adj[j..] of one candidate;
\* b is [candidates, results, visited] and pushes, the ids in the order
\* candidates.push took them
ExpandFrom(h, query, ef, adj, j, b) ==
    IF j > Len(adj) THEN b
    ELSE IF adj[j] \in b.visited THEN ExpandFrom(h, query, ef, adj, j + 1, b)
    ELSE LET nb == adj[j]
             r == [distance |-> distance_sq(query, h.vectors[nb + 1]), id |-> nb]
             farthest == Farthest(b.results).distance
             seen == [b EXCEPT !.visited = @ \cup {nb}]
             pushed == [seen EXCEPT !.candidates = @ \cup {r},
                                    !.results = @ \cup {r},
                                    !.pushes = Append(@, nb)]
             popped == IF Cardinality(pushed.results) > ef
                       THEN [pushed EXCEPT !.results = @ \ {Farthest(@)}]
                       ELSE pushed
         IN  IF r.distance < farthest \/ Cardinality(b.results) < ef
             THEN ExpandFrom(h, query, ef, adj, j + 1, popped)
             ELSE ExpandFrom(h, query, ef, adj, j + 1, seen)

RECURSIVE Beam(_, _, _, _, _)
\* the while loop of search_layer: b when the loop is left
Beam(h, query, ef, layer, b) ==
    IF b.candidates = {} THEN b
    ELSE LET c == Nearest(b.candidates)
             rest == [b EXCEPT !.candidates = @ \ {c}]
         IN  IF c.distance > Farthest(b.results).distance
             THEN rest
             ELSE IF c.id < Len(h.graph[layer + 1])
                  THEN Beam(h, query, ef, layer,
                            ExpandFrom(h, query, ef, h.graph[layer + 1][c.id + 1], 1, rest))
                  ELSE Beam(h, query, ef, layer, rest)

\* search_layer up to the end of its while loop, for an entry that has an
\* adjacency list at the layer
Beamed(h, query, entry, ef, layer) ==
    LET first == [distance |-> distance_sq(query, h.vectors[entry + 1]),
                  id |-> entry]
    IN  Beam(h, query, ef, layer,
             [candidates |-> {first}, results |-> {first},
              visited |-> {entry}, pushes |-> <<entry>>])

\* search_layer: up to ef results, the nearest first
search_layer(h, query, entry, ef, layer) ==
    IF layer >= Len(h.graph) THEN <<>>
    ELSE IF entry = NONE \/ entry >= Len(h.graph[layer + 1]) THEN <<>>
    ELSE Sorted(Beamed(h, query, entry, ef, layer).results)

\* select_neighbors
select_neighbors(candidates, M) ==
    IF Len(candidates) > M THEN SubSeq(candidates, 1, M) ELSE candidates

\* a prune that cuts nothing
prune_nothing(h, node, layer, M_max) == h

\* prune: the adjacency list of node at layer cut to its M_max nearest
prune(h, node, layer, M_max) ==
    LET adj == h.graph[layer + 1][node + 1]
        scored == Sorted({[distance |-> distance_sq(h.vectors[node + 1],
                                                    h.vectors[adj[i] + 1]),
                           id |-> adj[i]] : i \in DOMAIN adj})
        kept == IF M_max < Len(scored) THEN M_max ELSE Len(scored)
    IN  [h EXCEPT !.graph[layer + 1][node + 1] = [i \in 1 .. kept |-> scored[i].id]]

RECURSIVE Descend(_, _, _, _, _)
\* the greedy descent of insert and search: layers l, l - 1, ..., above
\* stop, one search_layer with ef = 1 each; the node reached
Descend(h, query, current, l, stop) ==
    IF l <= stop THEN current
    ELSE LET nearest == search_layer(h, query, current, 1, l)
         IN  Descend(h, query,
                     IF nearest # <<>> THEN nearest[1].id ELSE current,
                     l - 1, stop)

RECURSIVE AddEdges(_, _, _, _, _, _)
\* the loop of insert over neighbors[j..]: an edge each way, then the prune
\* of a neighbour that holds more than M_max edges
AddEdges(h, id, l, neighbors, j, M_max) ==
    IF j > Len(neighbors) THEN h
    ELSE LET nb == neighbors[j].id
             linked == [h EXCEPT !.graph[l + 1][id + 1] = Append(@, nb),
                                 !.graph[l + 1][nb + 1] = Append(@, id)]
         IN  AddEdges(IF Len(linked.graph[l + 1][nb + 1]) > M_max
                      THEN prune(linked, nb, l, M_max)
                      ELSE linked,
                      id, l, neighbors, j + 1, M_max)

RECURSIVE Connect(_, _, _, _, _)
\* phase 2 of insert, from layer l down to layer 0
Connect(h, vec, id, current, l) ==
    IF l < 0 THEN h
    ELSE LET candidates == search_layer(h, vec, current, h.ef_construction, l)
             M_max == IF l = 0 THEN h.M_max0 ELSE h.M
             neighbors == select_neighbors(candidates, M_max)
         IN  Connect(AddEdges(h, id, l, neighbors, 1, M_max), vec, id,
                     IF candidates # <<>> THEN candidates[1].id ELSE current,
                     l - 1)

\* the adjacency lists of layer grown to hold size nodes (vector::resize)
Resized(layer, size) ==
    IF Len(layer) >= size THEN layer
    ELSE layer \o [i \in 1 .. (size - Len(layer)) |-> <<>>]

\* HNSWIndex::insert
HnswInsert(h, vec) ==
    LET id == Len(h.vectors)
        level == random_level(h, id)
        layers == IF Len(h.graph) <= level THEN level + 1 ELSE Len(h.graph)
        grown == [l \in 1 .. layers |->
                     Resized(IF l <= Len(h.graph) THEN h.graph[l] ELSE <<>>,
                             IF l <= level + 1 THEN id + 1 ELSE 0)]
        stored == [h EXCEPT !.vectors = Append(@, vec), !.graph = grown]
        lower == IF level < h.max_layer THEN level ELSE h.max_layer
        current == Descend(stored, vec, h.entry_point, h.max_layer, level)
        connected == Connect(stored, vec, id, current, lower)
    IN  IF h.entry_point = NONE
        THEN [stored EXCEPT !.entry_point = id, !.max_layer = level]
        ELSE IF level > h.max_layer
             THEN [connected EXCEPT !.entry_point = id, !.max_layer = level]
             ELSE connected

\* a build that stops after its first insert
HnswBuildFirst(h, vectors, i) ==
    IF i > Len(vectors) THEN h ELSE HnswInsert(h, vectors[i])

RECURSIVE HnswBuild(_, _, _)
\* HNSWIndex::build from vectors[i..]
HnswBuild(h, vectors, i) ==
    IF i > Len(vectors) THEN h
    ELSE HnswBuild(HnswInsert(h, vectors[i]), vectors, i + 1)

RECURSIVE OrdersOf(_, _)
\* the orders std::sort can leave a result list in, cut to k entries by
\* resize(k): the first k entries (all, when there are fewer) of the
\* sequences that list the results rs once each, distances ascending and
\* equal distances in any order
OrdersOf(rs, k) ==
    IF rs = {} \/ k = 0 THEN {<<>>}
    ELSE UNION {{<<r>> \o rest : rest \in OrdersOf(rs \ {r}, k - 1)} :
                   r \in {n \in rs : \A o \in rs : n.distance <= o.distance}}

\* HNSWIndex::search: the result lists the call can return
HnswSearch(h, query, k) ==
    IF h.entry_point = NONE THEN {<<>>}
    ELSE LET current == Descend(h, query, h.entry_point, h.max_layer, 0)
             ef == IF h.ef_search > k THEN h.ef_search ELSE k
             results == search_layer(h, query, current, ef, 0)
         IN  {[i \in DOMAIN resized |->
                  [distance |-> sqrt(resized[i].distance), id |-> resized[i].id]] :
              resized \in OrdersOf(Range(results), k)}

\* HNSWIndex::size
HnswSize(h) == Len(h.vectors)

\* ------------------------------------------------------------------------
\* VectorDB (src/src/cpp/db/vector_db.hpp): the store and the index
\* ------------------------------------------------------------------------

\* the embeddings a caller of the engine stores under an id: the id's own
\* unit vector or the unit vector of id 1, so that records with different
\* ids can carry the same embedding
EngineEmbeddings(id) == {EmbeddingOf(id), EmbeddingOf(1)}

\* the rows of a RecordBatch: an id and its embedding
BatchRows ==
    UNION {{[id |-> id, embedding |-> e] : e \in EngineEmbeddings(id)} : id \in Ids}

\* the metadata columns of a RecordBatch with count rows.  The column is
\* optional and ingest_batch never reads it, so that a batch without one is
\* ingested as a batch with one is; the batches of the model carry one.
MetadataColumns(count) == [1 .. count -> Metadatas]

\* the M the engine is constructed with: the default, and a small M, which
\* makes random_level draw levels above 0 early
Ms == {2, 16}

\* the query vectors of search
Queries == {EmbeddingOf(1)}

\* the k of search
Ks == {0, 1}

\* the thresholds compact_and_rebuild is called with: one that a segment
\* with half of its rows tombstoned meets, and one above 1 that only a
\* segment with more tombstones than rows meets
EngineThresholds == {<<1, 2>>, <<3, 2>>}

\* an index that takes the vector before store_.insert has checked it
IndexedUnchecked(h, embedding, threw) ==
    IF threw THEN [h EXCEPT !.vectors = Append(@, embedding)]
    ELSE HnswInsert(h, embedding)

\* the index after VectorDB::insert: hnsw_.insert runs after store_.insert
\* and is not reached when store_.insert threw
Indexed(h, embedding, threw) ==
    IF threw THEN h ELSE HnswInsert(h, embedding)

\* the embeddings of a list of records
EmbeddingsOf(records) == [i \in 1 .. Len(records) |-> records[i].embedding]

\* a rebuild that feeds the live records to the index it has, without
\* making a new one
RebuiltOnTop(live) == HnswBuild(hnsw_, EmbeddingsOf(live), 1)

\* the index compact_and_rebuild makes from the live records: a new
\* HNSWIndex(dim_, 16, 200, 50) built from their embeddings in scan order
Rebuilt(live) == HnswBuild(HNSWIndex(16, 200, 50), EmbeddingsOf(live), 1)

\* found when the last call was not a search
NoSearch == [query |-> <<>>, k |-> 0, results |-> <<>>]

RECURSIVE Enrich(_, _, _, _, _)
\* the loop of VectorDB::search over hnsw_results[i..]
Enrich(hnsw_results, all_records, k, i, results) ==
    IF i > Len(hnsw_results) THEN results
    ELSE LET hr == hnsw_results[i]
             pushed == IF hr.id < Len(all_records)
                       THEN Append(results,
                                   [id |-> all_records[hr.id + 1].id,
                                    distance |-> hr.distance,
                                    metadata |-> all_records[hr.id + 1].metadata])
                       ELSE results
         IN  IF Len(pushed) >= k
             THEN pushed
             ELSE Enrich(hnsw_results, all_records, k, i + 1, pushed)

\* the beam width VectorDB::search sets: max(k * 2, 50)
OverFetch(k) == IF k * 2 > 50 THEN k * 2 ELSE 50

\* VectorDB::search on index h and store st: the index after set_ef_search
\* and the result lists the call can return
Search(h, st, query, k) ==
    LET ef == OverFetch(k)
        index == [h EXCEPT !.ef_search = ef]
    IN  [index |-> index,
         results |-> {Enrich(hnsw_results, ScanAll(st), k, 1, <<>>) :
                         hnsw_results \in HnswSearch(index, query, ef)}]

\* ------------------------------------------------------------------------
\* The read operations on the current state
\* ------------------------------------------------------------------------

scan_all == ScanAll(Store)
total_records == TotalRecords(Store)
total_live_records == TotalLiveRecords(Store)
sealed_segment_count == Len(sealed_segments_)
snapshot_count == Len(snapshots_)

\* VectorDB::index_size
index_size == HnswSize(hnsw_)

\* ------------------------------------------------------------------------
\* Actions
\* ------------------------------------------------------------------------

\* the last call: the operation, the id delete_vector was given (0 for the
\* other operations), the value compact returned (0 for the void
\* operations) and whether the call threw
Called(op, id, ret, threw) ==
    [op |-> op, id |-> id, ret |-> ret, threw |-> threw]

SetStore(st) ==
    /\ active_segment_' = st.active
    /\ sealed_segments_' = st.sealed
    /\ next_segment_id_' = st.next_id
    /\ snapshots_' = st.snapshots
    /\ files' = st.files

\* local[t] of a thread that is between calls
NoCall == [op |-> "none", rows |-> <<>>, i |-> 0, j |-> 0, seen |-> 0]

\* IcebergStore::IcebergStore; the engine around the store is the one
\* VectorDB::VectorDB makes by default, and the store's operations leave
\* it alone
Init ==
    /\ segment_capacity_ \in 1 .. MaxCapacity
    /\ active_segment_ = [segment_id |-> 0, records |-> <<>>, deleted |-> {}]
    /\ next_segment_id_ = 1
    /\ sealed_segments_ = <<>>
    /\ snapshots_ = <<[snapshot_id |-> 0, segment_ids |-> <<>>]>>
    /\ files = <<>>
    /\ inserted = <<>>
    /\ call = Called("open", 0, 0, FALSE)
    /\ hnsw_ = HNSWIndex(16, 200, 50)
    /\ found = NoSearch
    /\ gone = {}
    /\ mutex_ = 0
    /\ pc = [t \in Threads |-> "idle"]
    /\ local = [t \in Threads |-> NoCall]

\* IcebergStore::insert
insert ==
    \E id \in Ids, metadata \in Metadatas :
      \E embedding \in {EmbeddingOf(id), ShortEmbedding} :
        /\ Len(inserted) < MaxInserts
        /\ IF Len(embedding) # dim_
           THEN /\ call' = Called("insert", 0, 0, TRUE)
                /\ UNCHANGED <<active_segment_, sealed_segments_,
                               next_segment_id_, snapshots_, files, inserted>>
           ELSE /\ SetStore(AppendRow(Store, VectorRecord(id, embedding, metadata)))
                /\ inserted' = Append(inserted, VectorRecord(id, embedding, metadata))
                /\ call' = Called("insert", 0, 0, FALSE)
        /\ UNCHANGED <<segment_capacity_, engine_vars, thread_vars>>

\* the id arrays bulk_insert is called with: any number of rows that the
\* bound on the rows of a behaviour leaves room for
Batches ==
    UNION {[1 .. count -> Ids] : count \in 0 .. (MaxInserts - Len(inserted))}

\* IcebergStore::bulk_insert; a call with the wrong dim throws before it
\* reads a row, so it is made with the empty batch only
bulk_insert ==
    \E dim \in {dim_, dim_ + 1} :
      \E ids \in (IF dim = dim_ THEN Batches ELSE {<<>>}) :
        LET count == Len(ids)
            vectors == Concat([i \in 1 .. count |-> EmbeddingOf(ids[i])])
        IN  /\ Len(inserted) < MaxInserts
            /\ IF dim # dim_
               THEN /\ call' = Called("bulk_insert", 0, 0, TRUE)
                    /\ UNCHANGED <<active_segment_, sealed_segments_,
                                   next_segment_id_, snapshots_, files, inserted>>
               ELSE /\ SetStore(BulkLoop(Store, ids, vectors, 0, count, dim))
                    /\ inserted' = inserted \o
                           [i \in 1 .. count |-> VectorRecord(ids[i], EmbeddingOf(ids[i]), "")]
                    /\ call' = Called("bulk_insert", 0, 0, FALSE)
            /\ UNCHANGED <<segment_capacity_, engine_vars, thread_vars>>

\* IcebergStore::delete_vector
delete_vector ==
    \E id \in Ids :
        /\ SetStore(DeleteVector(Store, id))
        /\ call' = Called("delete_vector", id, 0, FALSE)
        /\ UNCHANGED <<segment_capacity_, inserted, engine_vars, thread_vars>>

\* IcebergStore::flush
flush ==
    /\ SetStore(flush_active_segment_locked(Store))
    /\ call' = Called("flush", 0, 0, FALSE)
    /\ UNCHANGED <<segment_capacity_, inserted, engine_vars, thread_vars>>

\* IcebergStore::compact
compact ==
    \E threshold \in Thresholds :
        /\ Len(snapshots_) < MaxSnapshots
        /\ SetStore(Compact(Store, threshold).store)
        /\ call' = Called("compact", 0, Compact(Store, threshold).ret, FALSE)
        /\ UNCHANGED <<segment_capacity_, inserted, engine_vars, thread_vars>>

Next ==
    \/ insert
    \/ bulk_insert
    \/ delete_vector
    \/ flush
    \/ compact

Spec == Init /\ [][Next]_vars

\* ------------------------------------------------------------------------
\* Actions of the engine
\* ------------------------------------------------------------------------

\* VectorDB::VectorDB(dim_, M, 200, 50, seg_capacity)
EngineInit ==
    /\ segment_capacity_ \in 1 .. MaxCapacity
    /\ active_segment_ = [segment_id |-> 0, records |-> <<>>, deleted |-> {}]
    /\ next_segment_id_ = 1
    /\ sealed_segments_ = <<>>
    /\ snapshots_ = <<[snapshot_id |-> 0, segment_ids |-> <<>>]>>
    /\ files = <<>>
    /\ inserted = <<>>
    /\ call = Called("open", 0, 0, FALSE)
    /\ \E M \in Ms : hnsw_ = HNSWIndex(M, 200, 50)
    /\ found = NoSearch
    /\ gone = {}
    /\ mutex_ = 0
    /\ pc = [t \in Threads |-> "idle"]
    /\ local = [t \in Threads |-> NoCall]

\* VectorDB::insert: store_.insert, then hnsw_.insert; a throw of
\* store_.insert leaves the call before hnsw_.insert
VectorDB_insert ==
    \E id \in Ids, metadata \in Metadatas :
      \E embedding \in EngineEmbeddings(id) \cup {ShortEmbedding} :
        /\ Len(inserted) < MaxInserts
        /\ IF Len(embedding) # dim_
           THEN /\ call' = Called("insert", 0, 0, TRUE)
                /\ UNCHANGED <<active_segment_, sealed_segments_,
                               next_segment_id_, snapshots_, files, inserted>>
           ELSE /\ SetStore(AppendRow(Store, VectorRecord(id, embedding, metadata)))
                /\ inserted' = Append(inserted, VectorRecord(id, embedding, metadata))
                /\ call' = Called("insert", 0, 0, FALSE)
        /\ hnsw_' = Indexed(hnsw_, embedding, Len(embedding) # dim_)
        /\ gone' = IF Len(embedding) # dim_ THEN gone ELSE gone \ {id}
        /\ found' = NoSearch
        /\ UNCHANGED <<segment_capacity_, thread_vars>>

\* the batches ingest_batch is called with: any number of rows that the
\* bound on the rows of a behaviour leaves room for
RecordBatches ==
    UNION {[1 .. count -> BatchRows] : count \in 0 .. (MaxInserts - Len(inserted))}

\* VectorDB::ingest_batch of a batch that has its id and embedding columns;
\* a batch whose list size is not dim_ throws before it reaches the store,
\* so it is made with the empty batch only.  inserted records the rows as
\* the caller handed them over, with the metadata of the batch's column.
ingest_batch ==
    \E list_size \in {dim_, dim_ + 1} :
      \E rows \in (IF list_size = dim_ THEN RecordBatches ELSE {<<>>}) :
        \E metadata \in MetadataColumns(Len(rows)) :
          LET n == Len(rows)
              ids == [i \in 1 .. n |-> rows[i].id]
              floats == Concat(EmbeddingsOf(rows))
          IN  /\ Len(inserted) < MaxInserts
              /\ IF list_size # dim_
                 THEN /\ call' = Called("ingest_batch", 0, 0, TRUE)
                      /\ UNCHANGED <<active_segment_, sealed_segments_,
                                     next_segment_id_, snapshots_, files,
                                     inserted, hnsw_, gone>>
                 ELSE /\ SetStore(BulkLoop(Store, ids, floats, 0, n, dim_))
                      /\ hnsw_' = HnswBuild(hnsw_,
                                            [i \in 1 .. n |->
                                                SubSeq(floats, (i - 1) * dim_ + 1, i * dim_)],
                                            1)
                      /\ inserted' = inserted \o
                             [i \in 1 .. n |->
                                 VectorRecord(rows[i].id, rows[i].embedding, metadata[i])]
                      /\ gone' = gone \ Range(ids)
                      /\ call' = Called("ingest_batch", 0, n, FALSE)
              /\ found' = NoSearch
              /\ UNCHANGED <<segment_capacity_, thread_vars>>

\* VectorDB::delete_vector
VectorDB_delete_vector ==
    \E id \in Ids :
        /\ SetStore(DeleteVector(Store, id))
        /\ call' = Called("delete_vector", id, 0, FALSE)
        /\ gone' = gone \cup {id}
        /\ found' = NoSearch
        /\ UNCHANGED <<segment_capacity_, inserted, hnsw_, thread_vars>>

\* VectorDB::flush
VectorDB_flush ==
    /\ SetStore(flush_active_segment_locked(Store))
    /\ call' = Called("flush", 0, 0, FALSE)
    /\ found' = NoSearch
    /\ UNCHANGED <<segment_capacity_, inserted, hnsw_, gone, thread_vars>>

\* VectorDB::compact_and_rebuild: store_.compact, then a new index built
\* from scan_all()
compact_and_rebuild ==
    \E threshold \in EngineThresholds :
      LET compacted == Compact(Store, threshold)
          live == ScanAll(compacted.store)
      IN  /\ Len(snapshots_) < MaxSnapshots
          /\ SetStore(compacted.store)
          /\ hnsw_' = Rebuilt(live)
          /\ call' = Called("compact_and_rebuild", 0, compacted.ret, FALSE)
          /\ found' = NoSearch
          /\ UNCHANGED <<segment_capacity_, inserted, gone, thread_vars>>

\* VectorDB::search; a query of the wrong length throws before the index is
\* touched
search ==
    \E query \in Queries \cup {ShortEmbedding}, k \in Ks :
        /\ IF Len(query) # dim_
           THEN /\ call' = Called("search", 0, 0, TRUE)
                /\ found' = NoSearch
                /\ UNCHANGED hnsw_
           ELSE /\ hnsw_' = Search(hnsw_, Store, query, k).index
                /\ \E results \in Search(hnsw_, Store, query, k).results :
                       found' = [query |-> query, k |-> k, results |-> results]
                /\ call' = Called("search", 0, 0, FALSE)
        /\ UNCHANGED <<segment_capacity_, next_segment_id_, active_segment_,
                       sealed_segments_, snapshots_, files, inserted, gone,
                       thread_vars>>

EngineNext ==
    \/ VectorDB_insert
    \/ ingest_batch
    \/ VectorDB_delete_vector
    \/ VectorDB_flush
    \/ compact_and_rebuild
    \/ search

\* the engine opened by VectorDB::VectorDB and driven by one caller
EngineSpec == EngineInit /\ [][EngineNext]_vars

\* ------------------------------------------------------------------------
\* Threads: callers of the engine that run at the same time
\*
\* A thread is idle between calls.  An operation of the store that holds
\* mutex_ for its whole body and makes its change in one piece is one step,
\* taken while mutex_ is free.  bulk_insert holds mutex_ over a loop, so it
\* is a step that locks, a step per row and a step that unlocks.  What runs
\* outside mutex_ (snapshot_count, hnsw_.insert) is a step that enters and
\* a step that leaves, so that other threads can run in between.
\* ------------------------------------------------------------------------

\* the rows that threads have taken into a call and not yet stored
Reserved == Sum([t \in 1 .. Cardinality(Threads) |-> Len(local[t].rows) - local[t].i])

\* the rows that the bound on the rows of a behaviour leaves room for
Room == MaxInserts - Len(inserted) - Reserved

\* a lock_guard that does not wait
LockIgnored == TRUE

\* std::lock_guard<std::mutex> lock(mutex_): the caller goes on when no
\* thread holds mutex_
LockFree == mutex_ = 0

\* VectorDB::insert, first half: store_.insert
T_insert(t) ==
    \E id \in Ids :
        LET rec == VectorRecord(id, EmbeddingOf(id), "m")
        IN  /\ pc[t] = "idle"
            /\ Room > 0
            /\ LockFree
            /\ SetStore(AppendRow(Store, rec))
            /\ inserted' = Append(inserted, rec)
            /\ pc' = [pc EXCEPT ![t] = "index"]
            /\ local' = [local EXCEPT ![t] = [op |-> "insert", rows |-> <<rec>>,
                                              i |-> 1, j |-> 0, seen |-> 0]]
            /\ UNCHANGED <<segment_capacity_, call, hnsw_, found, gone, mutex_>>

\* VectorDB::ingest_batch up to the lock_guard of store_.bulk_insert
T_bulk_lock(t) ==
    \E count \in 0 .. Room :
      \E ids \in [1 .. count -> Ids] :
        /\ pc[t] = "idle"
        /\ Room > 0
        /\ LockFree
        /\ mutex_' = t
        /\ pc' = [pc EXCEPT ![t] = "bulk_insert"]
        /\ local' = [local EXCEPT ![t] =
                        [op |-> "ingest_batch",
                         rows |-> [i \in 1 .. count |->
                                      VectorRecord(ids[i], EmbeddingOf(ids[i]), "")],
                         i |-> 0, j |-> 0, seen |-> 0]]
        /\ UNCHANGED <<segment_capacity_, next_segment_id_, active_segment_,
                       sealed_segments_, snapshots_, files, inserted, call,
                       hnsw_, found, gone>>

\* one turn of the loop of bulk_insert
T_bulk_row(t) ==
    /\ pc[t] = "bulk_insert"
    /\ local[t].i < Len(local[t].rows)
    /\ SetStore(AppendRow(Store, local[t].rows[local[t].i + 1]))
    /\ inserted' = Append(inserted, local[t].rows[local[t].i + 1])
    /\ local' = [local EXCEPT ![t].i = @ + 1]
    /\ UNCHANGED <<segment_capacity_, call, hnsw_, found, gone, mutex_, pc>>

\* the return of bulk_insert, which unlocks; ingest_batch goes on to the
\* index
T_bulk_unlock(t) ==
    /\ pc[t] = "bulk_insert"
    /\ local[t].i = Len(local[t].rows)
    /\ mutex_' = 0
    /\ pc' = [pc EXCEPT ![t] = IF local[t].rows = <<>> THEN "idle" ELSE "index"]
    /\ local' = [local EXCEPT ![t] = IF local[t].rows = <<>> THEN NoCall ELSE @]
    /\ UNCHANGED <<segment_capacity_, next_segment_id_, active_segment_,
                   sealed_segments_, snapshots_, files, inserted, call,
                   hnsw_, found, gone>>

\* the caller enters hnsw_.insert for its next row; no lock is taken
T_index_enter(t) ==
    /\ pc[t] = "index"
    /\ pc' = [pc EXCEPT ![t] = "hnsw_insert"]
    /\ local' = [local EXCEPT ![t].seen = HnswSize(hnsw_)]
    /\ UNCHANGED <<segment_capacity_, next_segment_id_, active_segment_,
                   sealed_segments_, snapshots_, files, inserted, call,
                   hnsw_, found, gone, mutex_>>

\* another thread was inside hnsw_.insert while t was
IndexRaced(t) ==
    \/ \E o \in Threads \ {t} : pc[o] = "hnsw_insert"
    \/ HnswSize(hnsw_) # local[t].seen

\* the caller leaves hnsw_.insert.  Two calls that ran at the same time are
\* a data race on vectors_ and graph_: the index may have taken the vector
\* as if the calls had come one after the other, or may have lost it.
T_index_leave(t) ==
    LET vec == local[t].rows[local[t].j + 1].embedding
        last == local[t].j + 1 = Len(local[t].rows)
    IN  /\ pc[t] = "hnsw_insert"
        /\ hnsw_' \in {HnswInsert(hnsw_, vec)} \cup (IF IndexRaced(t) THEN {hnsw_} ELSE {})
        /\ pc' = [pc EXCEPT ![t] = IF last THEN "idle" ELSE "index"]
        /\ local' = [local EXCEPT ![t] = IF last THEN NoCall
                                         ELSE [@ EXCEPT !.j = @ + 1, !.seen = 0]]
        /\ UNCHANGED <<segment_capacity_, next_segment_id_, active_segment_,
                       sealed_segments_, snapshots_, files, inserted, call,
                       found, gone, mutex_>>

\* the read operations of the store that take the lock
ReadOps == {"scan_all", "total_records", "total_live_records", "sealed_segment_count"}

\* what a read operation returns; of scan_all, the number of records
Returned(op) ==
    CASE op = "scan_all" -> Len(scan_all)
      [] op = "total_records" -> total_records
      [] op = "total_live_records" -> total_live_records
      [] op = "sealed_segment_count" -> sealed_segment_count

\* IcebergStore::scan_all, total_records, total_live_records and
\* sealed_segment_count; local[t].seen is what the call returned
T_read(t) ==
    \E op \in ReadOps :
        /\ pc[t] = "idle"
        /\ LockFree
        /\ local' = [local EXCEPT ![t] = [op |-> op, rows |-> <<>>, i |-> 0,
                                          j |-> 0, seen |-> Returned(op)]]
        /\ UNCHANGED <<segment_capacity_, next_segment_id_, active_segment_,
                       sealed_segments_, snapshots_, files, inserted, call,
                       hnsw_, found, gone, mutex_, pc>>

\* the caller enters snapshot_count, which takes no lock; local[t].seen is
\* the size of snapshots_ on entry
T_snapshot_count_enter(t) ==
    /\ pc[t] = "idle"
    /\ pc' = [pc EXCEPT ![t] = "snapshot_count"]
    /\ local' = [local EXCEPT ![t] = [op |-> "snapshot_count", rows |-> <<>>,
                                      i |-> 0, j |-> 0, seen |-> Len(snapshots_)]]
    /\ UNCHANGED <<segment_capacity_, next_segment_id_, active_segment_,
                   sealed_segments_, snapshots_, files, inserted, call,
                   hnsw_, found, gone, mutex_>>

\* snapshot_count returns.  A push_back to snapshots_ that ran meanwhile is
\* a data race with the read of its size: any size may be returned.
T_snapshot_count_leave(t) ==
    /\ pc[t] = "snapshot_count"
    /\ \E size \in (IF Len(snapshots_) # local[t].seen
                    THEN 0 .. Len(snapshots_) ELSE {Len(snapshots_)}) :
           local' = [local EXCEPT ![t].seen = size]
    /\ pc' = [pc EXCEPT ![t] = "idle"]
    /\ UNCHANGED <<segment_capacity_, next_segment_id_, active_segment_,
                   sealed_segments_, snapshots_, files, inserted, call,
                   hnsw_, found, gone, mutex_>>

ThreadsNext ==
    \E t \in Threads :
        \/ T_insert(t)
        \/ T_bulk_lock(t)
        \/ T_bulk_row(t)
        \/ T_bulk_unlock(t)
        \/ T_index_enter(t)
        \/ T_index_leave(t)
        \/ T_read(t)
        \/ T_snapshot_count_enter(t)
        \/ T_snapshot_count_leave(t)

\* the engine opened by VectorDB::VectorDB and called by Threads
ThreadsSpec == Init /\ [][ThreadsNext]_vars

\* ------------------------------------------------------------------------
\* Actions of the index alone
\*
\* An HNSWIndex outside the engine, as the algorithm tests use it: the
\* variables of the store and of the threads stay as Init leaves them.
\* ------------------------------------------------------------------------

\* the vectors the index is given
HnswVectors == {<<1, 0>>, <<0, 1>>, <<1, 1>>}

\* the query of HNSWIndex::search
HnswQueries == {<<1, 0>>}

\* <<M, ef_construction, ef_search>> of the index: a graph that prunes
\* from its sixth node on, with narrow beams and with the default beams
\* (with the default M = 16 a graph of MaxNodes nodes is never pruned)
HnswParameters == {<<2, 2, 1>>, <<2, 200, 50>>}

\* the k of HNSWIndex::search
HnswKs == {1}

\* HNSWIndex::HNSWIndex(dim_, M, ef_construction, ef_search)
HnswInit ==
    /\ segment_capacity_ = 1
    /\ active_segment_ = [segment_id |-> 0, records |-> <<>>, deleted |-> {}]
    /\ next_segment_id_ = 1
    /\ sealed_segments_ = <<>>
    /\ snapshots_ = <<[snapshot_id |-> 0, segment_ids |-> <<>>]>>
    /\ files = <<>>
    /\ inserted = <<>>
    /\ call = Called("open", 0, 0, FALSE)
    /\ \E p \in HnswParameters : hnsw_ = HNSWIndex(p[1], p[2], p[3])
    /\ found = NoSearch
    /\ gone = {}
    /\ mutex_ = 0
    /\ pc = [t \in Threads |-> "idle"]
    /\ local = [t \in Threads |-> NoCall]

\* HNSWIndex::insert; it returns the id of the new node
HNSWIndex_insert ==
    \E vec \in HnswVectors :
        /\ HnswSize(hnsw_) < MaxNodes
        /\ hnsw_' = HnswInsert(hnsw_, vec)
        /\ call' = Called("hnsw_insert", 0, HnswSize(hnsw_), FALSE)
        /\ found' = NoSearch
        /\ UNCHANGED <<segment_capacity_, next_segment_id_, active_segment_,
                       sealed_segments_, snapshots_, files, inserted, gone,
                       thread_vars>>

\* HNSWIndex::build of a new index with a list of two vectors
HNSWIndex_build ==
    \E v1 \in HnswVectors, v2 \in HnswVectors :
        /\ HnswSize(hnsw_) = 0
        /\ hnsw_' = HnswBuild(hnsw_, <<v1, v2>>, 1)
        /\ call' = Called("hnsw_build", 0, 0, FALSE)
        /\ found' = NoSearch
        /\ UNCHANGED <<segment_capacity_, next_segment_id_, active_segment_,
                       sealed_segments_, snapshots_, files, inserted, gone,
                       thread_vars>>

\* HNSWIndex::search
HNSWIndex_search ==
    \E query \in HnswQueries, k \in HnswKs :
        \E results \in HnswSearch(hnsw_, query, k) :
            /\ found' = [query |-> query, k |-> k, results |-> results]
            /\ call' = Called("hnsw_search", 0, 0, FALSE)
            /\ UNCHANGED <<segment_capacity_, next_segment_id_, active_segment_,
                           sealed_segments_, snapshots_, files, inserted, gone,
                           hnsw_, thread_vars>>

HnswNext ==
    \/ HNSWIndex_insert
    \/ HNSWIndex_build
    \/ HNSWIndex_search

\* an index that is given vectors and searched
HnswSpec == HnswInit /\ [][HnswNext]_vars

\* ------------------------------------------------------------------------
\* Properties
\* ------------------------------------------------------------------------

\* the number of stored rows with this id: in the active segment and in the
\* files of the sealed segments, tombstoned or not
Places(id) ==
    Cardinality({i \in DOMAIN active_segment_.records :
                    active_segment_.records[i].id = id})
    + Sum([i \in 1 .. Len(sealed_segments_) |->
              Cardinality({j \in DOMAIN files[sealed_segments_[i].filepath].id :
                              files[sealed_segments_[i].filepath].id[j] = id})])

\* C1: after delete_vector(id) returns, scan_all() returns no record whose
\* id is id, ids being allowed to repeat.
C1_DeletedIdNotScanned ==
    call.op = "delete_vector" =>
        \A i \in DOMAIN scan_all : scan_all[i].id # call.id

\* C2: a delete_vector(id) of an id stored in exactly one place leaves
\* total_records() unchanged and lowers total_live_records() by at most 1.
C2_DeleteOnePlace ==
    [][(call'.op = "delete_vector" /\ Places(call'.id) = 1) =>
          /\ total_records' = total_records
          /\ DecreasesByAtMost(total_live_records, total_live_records', 1)]_vars

\* C3: every sealed segment has |tombstones| <= num_records, so that
\* SealedSegment::live_count() does not wrap.
C3_TombstonesWithinRecords ==
    \A i \in DOMAIN sealed_segments_ :
        /\ Cardinality(sealed_segments_[i].deleted) <= sealed_segments_[i].num_records
        /\ ~Wrapped(SealedLiveCount(sealed_segments_[i]))

\* C4: an insert or bulk_insert that stores n rows makes total_records()
\* and total_live_records() exactly n larger.
C4_InsertAddsExactlyN ==
    [][(call'.op \in {"insert", "bulk_insert"} /\ ~call'.threw) =>
          LET n == Len(inserted') - Len(inserted)
          IN  /\ ExactlyLarger(total_records', total_records, n)
              /\ ExactlyLarger(total_live_records', total_live_records, n)]_vars

\* C5: scan_all() returns the live records in the order of their insertion:
\* it is the insertion history with entries dropped.
C5_ScanInInsertionOrder == IsSubseq(scan_all, inserted)

\* C6: a record that delete_vector took out of scan_all() never comes back:
\* in no step does scan_all() gain a copy of a record other than the copies
\* the step inserts.  (scan_all() reads the segments and the files only, so
\* a step that leaves them alone is not looked at further.)
C6_NoResurrection ==
    [][\/ UNCHANGED <<active_segment_, sealed_segments_, files>>
       \/ LET before == scan_all
              after == scan_all'
              stored == SubSeq(inserted', Len(inserted) + 1, Len(inserted'))
          IN  \/ after = before
              \/ \A r \in Range(after) :
                     Count(after, r) <= Count(before, r) + Count(stored, r)]_vars

\* a compaction has physically dropped a tombstoned row, which scan_all()
\* does not return
C6_Witness ==
    /\ call.op = "compact"
    /\ call.ret > 0
    /\ \E r \in Range(inserted) : Count(scan_all, r) < Count(inserted, r)

\* C7: compact returns the number of rows it removed: total_records()
\* before the call minus total_records() after it.
C7_CompactReturnsRemoved ==
    [][call'.op = "compact" => call'.ret = total_records - total_records']_vars

\* a compaction that removed rows and left a sealed segment behind
C7_Witness ==
    /\ call.op = "compact"
    /\ call.ret > 0
    /\ Len(sealed_segments_) > 0

\* the threshold clamped to [0,1]
Clamp(threshold) ==
    IF threshold[1] > threshold[2] THEN <<1, 1>>
    ELSE IF threshold[1] < 0 THEN <<0, 1>>
    ELSE threshold

\* C8: compact(t) rewrites the segments that compact of t clamped to [0,1]
\* rewrites.
C8_ThresholdClamped ==
    \A threshold \in Thresholds :
        Dirty(Store, threshold) = Dirty(Store, Clamp(threshold))

\* C9: the active segment holds fewer than segment_capacity records in
\* every state, hence after every insert and bulk_insert.
C9_ActiveBelowCapacity == Len(active_segment_.records) < segment_capacity_

\* a bulk_insert whose last row filled the active segment, which was sealed
C9_Witness ==
    /\ call.op = "bulk_insert"
    /\ ~call.threw
    /\ active_segment_.records = <<>>
    /\ Len(sealed_segments_) >= 2
    /\ sealed_segments_[Len(sealed_segments_)].num_records = segment_capacity_

\* C10: no sealed segment holds more than segment_capacity records.
C10_SealedWithinCapacity ==
    \A i \in DOMAIN sealed_segments_ :
        sealed_segments_[i].num_records <= segment_capacity_

\* C10, amended: for segment_capacity >= 1, the segments that insert,
\* bulk_insert and flush append to the sealed list hold at most
\* segment_capacity records.
C10_SealsWithinCapacity ==
    [][call'.op \in {"insert", "bulk_insert", "flush"} =>
          \A i \in DOMAIN sealed_segments_' :
              i > Len(sealed_segments_) =>
                  sealed_segments_'[i].num_records <= segment_capacity_]_vars

\* an insert sealed a full active segment of more than one row
C10_Witness ==
    /\ call.op = "insert"
    /\ ~call.threw
    /\ segment_capacity_ > 1
    /\ Len(sealed_segments_) > 0
    /\ sealed_segments_[Len(sealed_segments_)].num_records = segment_capacity_
    /\ active_segment_.records = <<>>

\* the seals a step performs: insert, bulk_insert and flush seal by appending
\* one descriptor to the sealed list per seal, and nothing else seals
Seals ==
    IF call'.op \in {"insert", "bulk_insert", "flush"}
    THEN Len(sealed_segments_') - Len(sealed_segments_)
    ELSE 0

\* the compact calls a step completes
Compactions == IF call'.op = "compact" THEN 1 ELSE 0

\* C11: snapshot_count() is 1 after open, and every step raises it by the
\* number of its seals plus the number of its compact calls, so that it is
\* 1 + seals + compactions, and at least 1, in every state.
C11_SnapshotPerSealAndCompaction ==
    /\ snapshot_count = 1
    /\ [][/\ snapshot_count' = snapshot_count + Seals + Compactions
          /\ snapshot_count' >= 1]_vars

\* a bulk_insert that sealed twice, after a compaction and a delete_vector
C11_Witness ==
    /\ call.op = "bulk_insert"
    /\ Len(sealed_segments_) >= 2
    /\ active_segment_.records = <<>>
    /\ \E i \in DOMAIN snapshots_ :
           /\ i > 1
           /\ snapshots_[i].segment_ids = <<>>
    /\ snapshot_count = 4

\* C24: delete_vector(id) changes tombstone sets only, and as routed: when
\* a record of the active segment has the id, the active segment's set
\* gains it and the sealed segments stay as they are; otherwise the set of
\* every sealed segment gains it and the active segment stays as it is.
\* Records, num_records, the list of sealed segments, the next segment id,
\* the files and the snapshots do not change.
C24_DeleteRoutesTombstones ==
    [][call'.op = "delete_vector" =>
          LET id == call'.id
              in_active == \E i \in DOMAIN active_segment_.records :
                               active_segment_.records[i].id = id
          IN  /\ IF in_active
                 THEN /\ active_segment_'.deleted = active_segment_.deleted \cup {id}
                      /\ sealed_segments_' = sealed_segments_
                 ELSE /\ active_segment_' = active_segment_
                      /\ \A i \in DOMAIN sealed_segments_ :
                             sealed_segments_'[i].deleted =
                                 sealed_segments_[i].deleted \cup {id}
              /\ active_segment_'.records = active_segment_.records
              /\ active_segment_'.segment_id = active_segment_.segment_id
              /\ Len(sealed_segments_') = Len(sealed_segments_)
              /\ \A i \in DOMAIN sealed_segments_ :
                     /\ sealed_segments_'[i].segment_id = sealed_segments_[i].segment_id
                     /\ sealed_segments_'[i].filepath = sealed_segments_[i].filepath
                     /\ sealed_segments_'[i].num_records = sealed_segments_[i].num_records
              /\ UNCHANGED <<next_segment_id_, snapshots_, files>>]_vars

\* a delete_vector of an id that the active segment and a sealed segment
\* both hold: the tombstone is in the active segment only
C24_Witness ==
    /\ call.op = "delete_vector"
    /\ call.id \in active_segment_.deleted
    /\ sealed_segments_ # <<>>
    /\ \A i \in DOMAIN sealed_segments_ : sealed_segments_[i].deleted = {}
    /\ \E i \in DOMAIN sealed_segments_ :
           call.id \in Range(files[sealed_segments_[i].filepath].id)

\* C27: total_live_records() is the number of records scan_all() returns.
C27_LiveCountIsScanSize == total_live_records = Len(scan_all)

\* C28: a record inserted after delete_vector(id) with the same id is not
\* masked by the earlier delete: scan_all() returns every record that an
\* insert or bulk_insert has just stored, and a flush or compact drops no
\* record from scan_all().
C28_DeleteMasksNoLaterInsert ==
    [][/\ (call'.op \in {"insert", "bulk_insert"} /\ ~call'.threw) =>
              \A i \in (Len(inserted) + 1) .. Len(inserted') :
                  inserted'[i] \in Range(scan_all')
       /\ call'.op \in {"flush", "compact"} =>
              Range(scan_all) \subseteq Range(scan_all')]_vars

\* C29: compact leaves the records of scan_all() the same as a multiset,
\* whatever the threshold, and does not touch the active segment.
C29_CompactKeepsLiveView ==
    [][call'.op = "compact" =>
          /\ Len(scan_all') = Len(scan_all)
          /\ \A r \in Range(scan_all) \cup Range(scan_all') :
                 Count(scan_all', r) = Count(scan_all, r)
          /\ active_segment_' = active_segment_]_vars

\* a compact that dropped a tombstoned row and wrote the live rows into a
\* new segment at the end of the sealed list
C29_Witness ==
    /\ call.op = "compact"
    /\ call.ret > 0
    /\ sealed_segments_ # <<>>
    /\ sealed_segments_[Len(sealed_segments_)].segment_id = next_segment_id_ - 1
    /\ Len(scan_all) >= 1

\* ------------------------------------------------------------------------
\* Properties of the engine
\* ------------------------------------------------------------------------

\* C12: an insert whose embedding does not have dim_ entries throws and
\* changes nothing: the active segment, the sealed segments and their
\* tombstones and files, the snapshots and index_size() stay as they were.
C12_RejectedInsertChangesNothing ==
    [][(call'.op = "insert" /\ call'.threw) =>
          /\ UNCHANGED <<active_segment_, sealed_segments_, next_segment_id_,
                         snapshots_, files>>
          /\ index_size' = index_size]_vars

\* a rejected insert into an engine that holds a record, a tombstone and an
\* indexed vector
C12_Witness ==
    /\ call.op = "insert"
    /\ call.threw
    /\ index_size > 0
    /\ total_records > 0
    /\ total_live_records < total_records

\* C16: a record handed to an empty engine, by insert or by ingest_batch
\* with a metadata column, is read back as it was handed over while it is
\* the only record and live: the same id, embedding and metadata, in the
\* active segment or in a sealed one.
C16_RoundTrip ==
    (Len(inserted) = 1 /\ Len(scan_all) = 1) => scan_all[1] = inserted[1]

\* the ids of the inserted records are unique
UniqueIds ==
    \A i, j \in DOMAIN inserted : i # j => inserted[i].id # inserted[j].id

\* C17: every result of search names a stored record, and its distance is
\* the distance from the query to the embedding stored under its id.
C17_ResultsNameTheirRecords ==
    \A i \in DOMAIN found.results :
        \E j \in DOMAIN inserted :
            /\ inserted[j].id = found.results[i].id
            /\ found.results[i].distance =
                   sqrt(distance_sq(found.query, inserted[j].embedding))

\* C18: with unique ids, no result of search carries an id that was given
\* to delete_vector and not inserted since.
C18_DeletedIdNotFound ==
    UniqueIds => \A i \in DOMAIN found.results : found.results[i].id \notin gone

\* a search with a result, run while the index still holds the vector of a
\* deleted record next to that of a live one
C18_Witness ==
    /\ call.op = "search"
    /\ UniqueIds
    /\ gone # {}
    /\ found.results # <<>>
    /\ index_size = 2
    /\ Len(scan_all) = 1
    /\ \E j \in DOMAIN inserted : inserted[j].id \in gone

\* C19: search(query, k) returns at most k results.
C19_AtMostK == Len(found.results) <= found.k

\* the index holds the live records in scan order
IndexIsScan ==
    /\ index_size = Len(scan_all)
    /\ \A i \in DOMAIN scan_all : hnsw_.vectors[i] = scan_all[i].embedding

C21_RebuiltIndexCountsLive ==
    call.op = "compact_and_rebuild" => index_size = total_live_records

\* C22: while compact_and_rebuild is not called, index_size() is
\* total_records(): they are equal in the new engine, and a call of insert,
\* ingest_batch, delete_vector, flush or search that finds them equal leaves
\* them equal; ingest_batch returns the number of rows of its batch and
\* raises both by it, and delete_vector changes neither.
C22_IndexSizeIsTotalRecords ==
    /\ index_size = total_records
    /\ [][(index_size = total_records /\ call'.op # "compact_and_rebuild") =>
            /\ index_size' = total_records'
            /\ (call'.op = "ingest_batch" /\ ~call'.threw) =>
                   /\ call'.ret = Len(inserted') - Len(inserted)
                   /\ ExactlyLarger(index_size', index_size, call'.ret)
                   /\ ExactlyLarger(total_records', total_records, call'.ret)
            /\ call'.op = "delete_vector" =>
                   /\ index_size' = index_size
                   /\ total_records' = total_records]_vars

\* an ingest_batch of two rows that sealed a segment on its way
C22_Witness ==
    /\ call.op = "ingest_batch"
    /\ call.ret = 2
    /\ index_size = 2
    /\ total_records = 2
    /\ sealed_segments_ # <<>>

\* C30: compact_and_rebuild leaves the parameters of the index as the
\* engine was constructed with them: M, M_max0, ef_construction and
\* ef_search are the same before and after the call.
C30_RebuildKeepsParameters ==
    [][call'.op = "compact_and_rebuild" =>
          /\ hnsw_'.M = hnsw_.M
          /\ hnsw_'.M_max0 = hnsw_.M_max0
          /\ hnsw_'.ef_construction = hnsw_.ef_construction
          /\ hnsw_'.ef_search = hnsw_.ef_search]_vars

\* ------------------------------------------------------------------------
\* Properties of the index
\* ------------------------------------------------------------------------

\* the layers of the index and the nodes that have an adjacency list there
Layers == 0 .. (Len(hnsw_.graph) - 1)
NodesAt(l) == 0 .. (Len(hnsw_.graph[l + 1]) - 1)

\* C23: a top-1 search for a vector of the index returns one result, the
\* id under which the vector was inserted, at distance 0; vectors may
\* repeat.
C23_SelfRetrieval ==
    \A i \in DOMAIN hnsw_.vectors :
        \A results \in HnswSearch(hnsw_, hnsw_.vectors[i], 1) :
            /\ Len(results) = 1
            /\ results[1].id = i - 1
            /\ results[1].distance = sqrt(0)

\* C25: every adjacency list holds at most M_max0 = 2 * M entries at layer
\* 0 and at most M entries at the layers above, holds no node twice and
\* does not hold its own node.
C25_DegreeBound ==
    \A l \in Layers :
        \A n \in NodesAt(l) :
            LET adj == hnsw_.graph[l + 1][n + 1]
            IN  /\ hnsw_.M_max0 = 2 * hnsw_.M
                /\ Len(adj) <= (IF l = 0 THEN hnsw_.M_max0 ELSE hnsw_.M)
                /\ \A i, j \in DOMAIN adj : i # j => adj[i] # adj[j]
                /\ \A i \in DOMAIN adj : adj[i] # n

\* at layer 0 and at a layer above, a full adjacency list and an edge that
\* prune cut in one direction only
C25_Witness ==
    \A l \in {0, 1} :
        /\ l \in Layers
        /\ \E n \in NodesAt(l) :
               Len(hnsw_.graph[l + 1][n + 1]) = (IF l = 0 THEN hnsw_.M_max0 ELSE hnsw_.M)
        /\ \E a, b \in NodesAt(l) :
               /\ b \in Range(hnsw_.graph[l + 1][a + 1])
               /\ a \notin Range(hnsw_.graph[l + 1][b + 1])

\* C26: on every graph that inserts build, search_layer comes to an end
\* for every layer, every entry node of the layer, every query and every
\* width ef >= 1: no node is pushed onto the candidate heap twice, and the
\* list returned has at most ef entries, distances ascending.  (search
\* leaves the graph as it is, so the graphs are looked at in the states
\* that insert and build leave; out is what search_layer returns for an
\* entry of the layer.)
C26_BeamSearchBounded ==
  call.op \in {"hnsw_insert", "hnsw_build"} =>
    \A l \in Layers :
        \A entry \in NodesAt(l), ef \in 1 .. MaxEf, query \in HnswVectors :
            LET left == Beamed(hnsw_, query, entry, ef, l)
                pushes == left.pushes
                out == Sorted(left.results)
            IN  /\ \A i, j \in DOMAIN pushes : i # j => pushes[i] # pushes[j]
                /\ Len(pushes) <= HnswSize(hnsw_)
                /\ Len(out) >= 1
                /\ Len(out) <= ef
                /\ \A i \in 1 .. (Len(out) - 1) : out[i].distance <= out[i + 1].distance

\* a graph with cycles at layer 0 on which a beam of width MaxEf leaves
\* nodes out and a beam from node 0 pushes more nodes than it returns
C26_Witness ==
    /\ HnswSize(hnsw_) > MaxEf + 1
    /\ \E query \in HnswVectors :
           LET b == Beamed(hnsw_, query, 0, MaxEf, 0)
           IN  /\ Len(b.pushes) > MaxEf
               /\ Cardinality(b.results) = MaxEf
    /\ \E a, b \in NodesAt(0) :
           /\ b \in Range(hnsw_.graph[1][a + 1])
           /\ a \in Range(hnsw_.graph[1][b + 1])

\* ------------------------------------------------------------------------
\* Properties of the threads
\* ------------------------------------------------------------------------

\* bulk_insert of thread w has stored some rows of its batch and not all
MidBatch(w) ==
    /\ pc[w] = "bulk_insert"
    /\ 0 < local[w].i
    /\ local[w].i < Len(local[w].rows)

\* C13: a scan_all, total_records, total_live_records or
\* sealed_segment_count of one thread never runs while the bulk_insert of
\* another thread has stored a proper non-empty prefix of its batch, so it
\* sees none or all of the batch.
C13_BulkInsertAtomic ==
    [][\A t \in Threads :
          (local'[t].op \in ReadOps /\ local'[t] # local[t]) =>
              \A w \in Threads : ~MidBatch(w)]_vars

\* a thread has read both rows of the batch of another thread, whose
\* bulk_insert has just returned
C13_Witness ==
    \E r, w \in Threads :
        /\ local[r].op = "scan_all"
        /\ local[r].seen = 2
        /\ local[w].op = "ingest_batch"
        /\ Len(local[w].rows) = 2
        /\ pc[w] = "index"
        /\ local[w].j = 0

\* C14: snapshot_count() and get_snapshot(i) hold the store mutex like
\* every public operation, so that no step appends to the snapshot list
\* while a thread is inside snapshot_count().
C14_SnapshotReadsUnderMutex ==
    [][snapshots_' # snapshots_ => \A t \in Threads : pc[t] # "snapshot_count"]_vars

\* C15: the engine serialises the index: no two threads are inside
\* hnsw_.insert at the same time, and the vectors reach the index in the
\* order in which their records reached the store.
C15_IndexSerialised ==
    /\ \A t, o \in Threads :
           t # o => ~(pc[t] = "hnsw_insert" /\ pc[o] = "hnsw_insert")
    /\ IsSubseq(hnsw_.vectors, EmbeddingsOf(inserted))

====
